---- MODULE Spec2Model ----
(***************************************************************************)
(* Model of the RAG backend of main.js.  The file holds three generations  *)
(* of the same server:                                                     *)
(*   version 1 (lines 1-183)   /index and /query, semantic chunking,       *)
(*                             getEmbeddings silences console.log;         *)
(*   version 2 (lines 185-345) /index and /query, word-count chunking;     *)
(*   version 3 (lines 347-533) /upload and /chat, semantic chunking.       *)
(* The variable ver says which of the three is running.                    *)
(*                                                                         *)
(* Texts are sequences of one-character strings, vectors are pairs of      *)
(* integers, a similarity threshold is a fraction <<num, den>>.            *)
(***************************************************************************)
EXTENDS Integers, Sequences, FiniteSets, TLC

VARIABLES
    \* --- the semantic chunker, one call followed step by step ---
    cpc,            \* position inside semanticChunking
    envChunk,       \* parseFloat(process.env.CHUNK_LENGTH), <<0, 0>> for NaN
    text,           \* argument text
    threshold,      \* argument threshold (after defaulting)
    cleanSentences, \* trimmed non-empty sentences
    vecs,           \* embeddings of the sentences
    i,              \* loop index (0-based, as in the source)
    chunks,         \* closed chunks
    currentChunk,   \* text of the open chunk
    currentVec,     \* anchor vector
    runStart,       \* history: 0-based index of the sentence that opened the open chunk
    \* --- the server ---
    ver,            \* which generation of main.js runs
    req,            \* request slots
    store,          \* records of the collection in the vector store
    collections,    \* names of the collections that exist in the store
    tmpFiles,       \* temporary files staged by multer and not yet unlinked
    consoleLog,     \* what console.log currently is: "orig" or "stub"
    now             \* Date.now()

chunkVars == <<cpc, envChunk, text, threshold, cleanSentences, vecs, i, chunks,
               currentChunk, currentVec, runStart>>
serverVars == <<ver, req, store, collections, tmpFiles, consoleLog, now>>
vars == <<cpc, envChunk, text, threshold, cleanSentences, vecs, i, chunks,
          currentChunk, currentVec, runStart,
          ver, req, store, collections, tmpFiles, consoleLog, now>>

----------------------------------------------------------------------------
(* Bounds *)

MaxPieces == 3      \* a chunker input text is made of at most this many pieces

----------------------------------------------------------------------------
(* Characters and texts *)

Terminators == {".", "!", "?"}
Whitespace == {" "}

RECURSIVE Flatten(_)
Flatten(ss) == IF ss = <<>> THEN <<>> ELSE Head(ss) \o Flatten(Tail(ss))

\* The pieces input texts are built from: a sentence, a sentence with a
\* leading blank, a bare blank, an unterminated word.
Pieces == { <<"a", ".">>, <<" ", "b", "!">>, <<" ">>, <<"c">> }

SeqsUpTo(S, n) == UNION { [1..m -> S] : m \in 0..n }

Texts == { Flatten(ps) : ps \in SeqsUpTo(Pieces, MaxPieces) }

\* String.prototype.trim
RECURSIVE TrimLeft(_)
TrimLeft(s) ==
    IF s # <<>> /\ Head(s) \in Whitespace THEN TrimLeft(Tail(s)) ELSE s

RECURSIVE TrimRight(_)
TrimRight(s) ==
    IF s # <<>> /\ s[Len(s)] \in Whitespace
    THEN TrimRight(SubSeq(s, 1, Len(s) - 1)) ELSE s

Trim(s) == TrimRight(TrimLeft(s))

\* Smallest index >= p of t that holds a terminator (a non-terminator),
\* Len(t)+1 when there is none.
RECURSIVE FirstTerm(_, _)
FirstTerm(t, p) ==
    IF p > Len(t) \/ t[p] \in Terminators THEN p ELSE FirstTerm(t, p + 1)

RECURSIVE FirstNonTerm(_, _)
FirstNonTerm(t, p) ==
    IF p > Len(t) \/ t[p] \notin Terminators THEN p ELSE FirstNonTerm(t, p + 1)

\* text.match(/[^.!?]+[.!?]+/g), the list of matches (<<>> stands for null):
\* a match is a maximal run of non-terminators followed by a maximal run of
\* terminators; a start position on a terminator is skipped, and a run of
\* non-terminators that reaches the end of the text matches nothing.
RECURSIVE MatchFrom(_, _)
MatchFrom(t, p) ==
    IF p > Len(t) THEN <<>>
    ELSE IF t[p] \in Terminators THEN MatchFrom(t, p + 1)
    ELSE LET q == FirstTerm(t, p) IN
         IF q > Len(t) THEN <<>>
         ELSE LET e == FirstNonTerm(t, q) - 1 IN
              <<SubSeq(t, p, e)>> \o MatchFrom(t, e + 1)

\* text.match(...) || [text]
Sentences(t) == IF MatchFrom(t, 1) = <<>> THEN <<t>> ELSE MatchFrom(t, 1)

RECURSIVE MapTrimFilter(_)
MapTrimFilter(ss) ==
    IF ss = <<>> THEN <<>>
    ELSE IF Trim(Head(ss)) = <<>> THEN MapTrimFilter(Tail(ss))
    ELSE <<Trim(Head(ss))>> \o MapTrimFilter(Tail(ss))

\* sentences.map((s) => s.trim()).filter((s) => s.length)
CleanSentences(t) == MapTrimFilter(Sentences(t))

----------------------------------------------------------------------------
(* Vectors and cosine similarity *)

Vecs == { <<0, 0>>, <<1, 0>>, <<0, 1>>, <<1, 1>>, <<2, 0>> }

Thresholds == { <<0, 1>>, <<1, 2>>, <<3, 4>>, <<1, 1>> }

Dot(a, b) == a[1] * b[1] + a[2] * b[2]

\* dotProduct and the squares of magnitudeA and magnitudeB; the quotient
\* dotProduct / (magnitudeA * magnitudeB) is kept symbolic.
cosineSimilarity(vecA, vecB) ==
    [dot |-> Dot(vecA, vecB), magA2 |-> Dot(vecA, vecA), magB2 |-> Dot(vecB, vecB)]

\* 0 / 0 is NaN (a zero magnitude makes the dot product zero too).
IsNaN(sim) == sim.magA2 * sim.magB2 = 0

IsSquare(n) == \E r \in 0..n : r * r = n

\* IEEE-754 doubles: Math.sqrt(x) * Math.sqrt(y) is exact when x and y are
\* perfect squares; for the other magnitudes of Vecs (x = y = 2) the product
\* is 2.0000000000000004, above the real value, so the quotient falls below it.
ProductRoundsUp(sim) == ~ (IsSquare(sim.magA2) /\ IsSquare(sim.magB2))

\* (sim || 0) >= threshold: NaN taken as similarity 0.
SimGENaNAsZero(sim, th) ==
    IF IsNaN(sim) THEN th[1] = 0
    ELSE LET lhs == sim.dot * sim.dot * th[2] * th[2]
             rhs == th[1] * th[1] * sim.magA2 * sim.magB2
         IN  /\ sim.dot >= 0
             /\ \/ lhs > rhs
                \/ lhs = rhs /\ (sim.dot = 0 \/ ~ ProductRoundsUp(sim))

\* sim > threshold.
SimGEStrict(sim, th) ==
    IF IsNaN(sim) THEN FALSE
    ELSE LET lhs == sim.dot * sim.dot * th[2] * th[2]
             rhs == th[1] * th[1] * sim.magA2 * sim.magB2
         IN  sim.dot >= 0 /\ lhs > rhs

\* sim >= threshold, as JavaScript evaluates it (NaN compares false).
SimGE(sim, th) ==
    IF IsNaN(sim) THEN FALSE
    ELSE LET lhs == sim.dot * sim.dot * th[2] * th[2]
             rhs == th[1] * th[1] * sim.magA2 * sim.magB2
         IN  /\ sim.dot >= 0
             /\ \/ lhs > rhs
                \/ lhs = rhs /\ (sim.dot = 0 \/ ~ ProductRoundsUp(sim))

----------------------------------------------------------------------------
(* Configuration *)

DefaultThreshold == <<3, 4>>

\* parseFloat of an unset or non-numeric variable is NaN, written <<0, 0>>.
EnvNaN == <<0, 0>>

EnvValues == {EnvNaN} \cup Thresholds

\* parseFloat(process.env.CHUNK_LENGTH) || 0.75 : NaN and 0 are falsy.
CHUNK_THRESHOLD(env) ==
    IF env = EnvNaN \/ env[1] = 0 THEN DefaultThreshold ELSE env

----------------------------------------------------------------------------
(* semanticChunking *)

At(s, k) == s[k + 1]     \* 0-based indexing of the source

\* One iteration of the for loop with the anchor following the last sentence.
LoopBodyAnchorMoves(st, k, sents, vs, th) ==
    IF SimGE(cosineSimilarity(st.currentVec, At(vs, k)), th)
    THEN [st EXCEPT !.currentChunk = @ \o <<" ">> \o At(sents, k),
                    !.currentVec = At(vs, k)]
    ELSE [chunks |-> Append(st.chunks, st.currentChunk),
          currentChunk |-> At(sents, k),
          currentVec |-> At(vs, k),
          runStart |-> k]

\* One iteration of the for loop, on the loop state st.
LoopBody(st, k, sents, vs, th) ==
    IF SimGE(cosineSimilarity(st.currentVec, At(vs, k)), th)
    THEN [st EXCEPT !.currentChunk = @ \o <<" ">> \o At(sents, k)]
    ELSE [chunks |-> Append(st.chunks, st.currentChunk),
          currentChunk |-> At(sents, k),
          currentVec |-> At(vs, k),
          runStart |-> k]

\* return chunks; without pushing the open chunk.
LoopExitDropsLast(st) == st.chunks

\* if (currentChunk) chunks.push(currentChunk); return chunks;
LoopExit(st) ==
    IF st.currentChunk # <<>> THEN Append(st.chunks, st.currentChunk)
    ELSE st.chunks

LoopEntry(sents, vs) ==
    [chunks |-> <<>>, currentChunk |-> At(sents, 0), currentVec |-> At(vs, 0),
     runStart |-> 0]

RECURSIVE RunLoop(_, _, _, _, _)
RunLoop(st, k, sents, vs, th) ==
    IF k < Len(sents) THEN RunLoop(LoopBody(st, k, sents, vs, th), k + 1, sents, vs, th)
    ELSE LoopExit(st)

\* The chunks semanticChunking returns for sentences sents embedded as vs.
ChunksOf(sents, vs, th) ==
    IF sents = <<>> THEN <<>> ELSE RunLoop(LoopEntry(sents, vs), 1, sents, vs, th)

----------------------------------------------------------------------------
(* One call of semanticChunking, step by step *)

\* The (environment, threshold) pairs a call can run with: an explicit
\* threshold argument, or the default taken from the configuration.
ThresholdInputs ==
    { <<EnvNaN, th>> : th \in Thresholds } \cup
    { <<e, CHUNK_THRESHOLD(e)>> : e \in EnvValues }

ServerOff ==
    /\ ver = 0
    /\ req = <<>>
    /\ store = {}
    /\ collections = {}
    /\ tmpFiles = {}
    /\ consoleLog = "orig"
    /\ now = 0

ChunkInit ==
    /\ cpc = "start"
    /\ \E ti \in ThresholdInputs : envChunk = ti[1] /\ threshold = ti[2]
    /\ text \in Texts
    /\ cleanSentences = <<>>
    /\ vecs = <<>>
    /\ i = 0
    /\ chunks = <<>>
    /\ currentChunk = <<>>
    /\ currentVec = <<0, 0>>
    /\ runStart = 0
    /\ ServerOff

\* Lines 412-416: segmentation, the early return, the embedding request.
ChunkBegin ==
    /\ cpc = "start"
    /\ cleanSentences' = CleanSentences(text)
    /\ cpc' = IF CleanSentences(text) = <<>> THEN "done" ELSE "embedding"
    /\ UNCHANGED <<envChunk, text, threshold, vecs, i, chunks, currentChunk,
                   currentVec, runStart>>
    /\ UNCHANGED serverVars

\* Lines 416-421: the embedding service answers with one vector per sentence.
ChunkEmbedded ==
    /\ cpc = "embedding"
    /\ \E vs \in [1..Len(cleanSentences) -> Vecs] :
          /\ vecs' = vs
          /\ chunks' = LoopEntry(cleanSentences, vs).chunks
          /\ currentChunk' = LoopEntry(cleanSentences, vs).currentChunk
          /\ currentVec' = LoopEntry(cleanSentences, vs).currentVec
          /\ runStart' = LoopEntry(cleanSentences, vs).runStart
    /\ i' = 1
    /\ cpc' = "loop"
    /\ UNCHANGED <<envChunk, text, threshold, cleanSentences>>
    /\ UNCHANGED serverVars

\* Line 416 / 404-407: the embedding request fails and the call throws.
ChunkEmbedFails ==
    /\ cpc = "embedding"
    /\ cpc' = "threw"
    /\ UNCHANGED <<envChunk, text, threshold, cleanSentences, vecs, i, chunks,
                   currentChunk, currentVec, runStart>>
    /\ UNCHANGED serverVars

LoopState ==
    [chunks |-> chunks, currentChunk |-> currentChunk, currentVec |-> currentVec,
     runStart |-> runStart]

\* Lines 423-432: one iteration of the loop.
ChunkStep ==
    /\ cpc = "loop"
    /\ i < Len(cleanSentences)
    /\ LET st == LoopBody(LoopState, i, cleanSentences, vecs, threshold) IN
          /\ chunks' = st.chunks
          /\ currentChunk' = st.currentChunk
          /\ currentVec' = st.currentVec
          /\ runStart' = st.runStart
    /\ i' = i + 1
    /\ UNCHANGED <<cpc, envChunk, text, threshold, cleanSentences, vecs>>
    /\ UNCHANGED serverVars

\* Lines 433-434: the loop is over, the open chunk is pushed.
ChunkReturn ==
    /\ cpc = "loop"
    /\ i >= Len(cleanSentences)
    /\ chunks' = LoopExit(LoopState)
    /\ cpc' = "done"
    /\ UNCHANGED <<envChunk, text, threshold, cleanSentences, vecs, i,
                   currentChunk, currentVec, runStart>>
    /\ UNCHANGED serverVars

ChunkNext ==
    \/ ChunkBegin
    \/ ChunkEmbedded
    \/ ChunkEmbedFails
    \/ ChunkStep
    \/ ChunkReturn

SpecChunk == ChunkInit /\ [][ChunkNext]_vars

----------------------------------------------------------------------------
(* Properties of the chunker *)

RECURSIVE JoinSp(_)
JoinSp(ss) ==
    IF Len(ss) = 1 THEN Head(ss) ELSE Head(ss) \o <<" ">> \o JoinSp(Tail(ss))

\* The chunks obtained by cutting sents before the (1-based) positions of cuts.
RECURSIVE CutAt(_, _, _)
CutAt(sents, from, cuts) ==
    IF from > Len(sents) THEN <<>>
    ELSE LET later == { c \in cuts : c > from }
             to == IF later = {} THEN Len(sents)
                   ELSE (CHOOSE c \in later : \A d \in later : c <= d) - 1
         IN  <<JoinSp(SubSeq(sents, from, to))>> \o CutAt(sents, to + 1, cuts)

IsChunkingOf(chs, sents) ==
    \E cuts \in SUBSET (2..Len(sents)) : chs = CutAt(sents, 1, cuts)

ZeroMag(v) == Dot(v, v) = 0

\* C4: when semanticChunking returns, its chunks are the space-joined
\* concatenations of consecutive groups of the input sentences that cover every
\* sentence exactly once in order; no sentence gives no chunk, one sentence
\* gives one chunk.
C4_ChunksCoverSentences ==
    cpc = "done" =>
        /\ IsChunkingOf(chunks, cleanSentences)
        /\ (cleanSentences = <<>> => chunks = <<>>)
        /\ (Len(cleanSentences) = 1 => Len(chunks) = 1)

C4_Witness ==
    /\ cpc = "done"
    /\ Len(cleanSentences) = 3
    /\ Len(chunks) = 2
    /\ Len(chunks[1]) > Len(cleanSentences[1])

\* C5: inside the loop the anchor is the embedding of the sentence that opened
\* the open chunk, the open chunk is the join of the sentences from that one
\* up to the last one consumed, and an iteration appends exactly when the
\* similarity between that anchor and sentence i reaches the threshold.
C5_AnchorInv ==
    cpc = "loop" =>
        /\ runStart < i
        /\ currentVec = At(vecs, runStart)
        /\ currentChunk = JoinSp(SubSeq(cleanSentences, runStart + 1, i))

C5_AnchorStep ==
    (cpc = "loop" /\ cpc' = "loop") =>
        IF SimGE(cosineSimilarity(At(vecs, runStart), At(vecs, i)), threshold)
        THEN currentVec' = currentVec /\ runStart' = runStart /\ chunks' = chunks
        ELSE currentVec' = At(vecs, i) /\ runStart' = i
             /\ chunks' = Append(chunks, currentChunk)

C5_AnchorStaysAtRunStart == [](C5_AnchorInv) /\ [][C5_AnchorStep]_vars

\* Sentence 1 was appended although its vector differs from the anchor's, and
\* the anchor is still sentence 0's vector.
C5_Witness ==
    /\ cpc = "loop"
    /\ i = 2
    /\ runStart = 0
    /\ At(vecs, 1) # At(vecs, 0)
    /\ currentVec = At(vecs, 0)

\* C9: an iteration that compares against a zero-magnitude vector closes the
\* open chunk and opens a new one at sentence i, whatever the threshold, and
\* the call does not throw.
C9_ZeroMagnitudeForcesBoundary ==
    [][(cpc = "loop" /\ i < Len(cleanSentences)
        /\ (ZeroMag(currentVec) \/ ZeroMag(At(vecs, i))))
       => /\ cpc' = "loop"
          /\ chunks' = Append(chunks, currentChunk)
          /\ currentChunk' = At(cleanSentences, i)
          /\ currentVec' = At(vecs, i)]_vars

\* With threshold 0 a boundary was placed before sentence 1, whose vector is zero.
C9_Witness ==
    /\ cpc = "loop"
    /\ threshold = <<0, 1>>
    /\ i = 2
    /\ ZeroMag(At(vecs, 1))
    /\ ~ ZeroMag(At(vecs, 0))
    /\ chunks = <<At(cleanSentences, 0)>>
    /\ currentChunk = At(cleanSentences, 1)

----------------------------------------------------------------------------
(* The server: bounds and inputs *)

MaxFiles == 2       \* files of one ingestion request
MaxTime == 1        \* Date.now() ranges over 0..MaxTime

\* Two requests, which may overlap at every await.
Slots == {1, 2}

Versions == {1, 2, 3}

\* Contents of uploaded files: blank (no sentence) and two dissimilar sentences.
FileTexts == { <<" ">>, <<"a", ".", " ", "b", "!">> }

\* Values of the context header and of the c field ("" when absent).
Contexts == {"A", "B"}

\* crypto.randomUUID().slice(0, 8)
RandomIds == {"1f"}

QueryTexts == {"", "q"}

KValues == {1, 5}

\* The embedding service, a function of the text: one vector per input.
RECURSIVE CountOf(_, _)
CountOf(ch, s) ==
    IF s = <<>> THEN 0
    ELSE (IF Head(s) = ch THEN 1 ELSE 0) + CountOf(ch, Tail(s))

EmbedText(s) == <<CountOf("a", s), CountOf("b", s)>>

EmbedAll(ss) == [m \in 1..Len(ss) |-> EmbedText(ss[m])]

----------------------------------------------------------------------------
(* Version 2: word-count chunking *)

TargetWords == 150

\* First index p >= from with t[p-1] a terminator and t[p] whitespace, 0 if none.
RECURSIVE SplitPoint(_, _)
SplitPoint(t, from) ==
    IF from > Len(t) THEN 0
    ELSE IF from > 1 /\ t[from - 1] \in Terminators /\ t[from] \in Whitespace
    THEN from
    ELSE SplitPoint(t, from + 1)

RECURSIVE SkipWs(_, _)
SkipWs(t, p) == IF p <= Len(t) /\ t[p] \in Whitespace THEN SkipWs(t, p + 1) ELSE p

\* text.split(/(?<=[.!?])\s+/)
RECURSIVE SplitSentences(_)
SplitSentences(t) ==
    LET p == SplitPoint(t, 1) IN
    IF p = 0 THEN <<t>>
    ELSE <<SubSeq(t, 1, p - 1)>> \o SplitSentences(SubSeq(t, SkipWs(t, p), Len(t)))

\* s.split(/\s+/).length : the number of whitespace runs plus one
RECURSIVE WsRuns(_, _)
WsRuns(s, p) ==
    IF p > Len(s) THEN 0
    ELSE IF s[p] \in Whitespace THEN 1 + WsRuns(s, SkipWs(s, p))
    ELSE WsRuns(s, p + 1)

WordCount(s) == WsRuns(s, 1) + 1

\* cur.join(" ")
RECURSIVE JoinWith(_)
JoinWith(ss) ==
    IF ss = <<>> THEN <<>>
    ELSE IF Len(ss) = 1 THEN Head(ss)
    ELSE Head(ss) \o <<" ">> \o JoinWith(Tail(ss))

\* The for loop of semanticChunk and its final push.
RECURSIVE WordLoop(_, _, _, _, _)
WordLoop(ss, cur, curWords, out, targetWords) ==
    IF ss = <<>> THEN (IF cur # <<>> THEN Append(out, JoinWith(cur)) ELSE out)
    ELSE LET w == WordCount(Head(ss)) IN
         IF curWords + w > targetWords /\ cur # <<>>
         THEN WordLoop(Tail(ss), <<Head(ss)>>, w, Append(out, JoinWith(cur)), targetWords)
         ELSE WordLoop(Tail(ss), Append(cur, Head(ss)), curWords + w, out, targetWords)

semanticChunk(t, targetWords) == WordLoop(SplitSentences(t), <<>>, 0, <<>>, targetWords)

----------------------------------------------------------------------------
(* Requests *)

IdleReq ==
    [kind |-> "none", pc |-> "idle",
     hasFiles |-> FALSE, files |-> <<>>, header |-> "", context |-> "",
     fileIdx |-> 0, allChunks |-> <<>>, embeddings |-> <<>>, ids |-> <<>>,
     q |-> "", k |-> 0, c |-> "", retrieved |-> {},
     status |-> 0, answer |-> "", indexed |-> 0, respContext |-> "", error |-> "",
     logAtEntry |-> "orig",
     \* history of the request
     nEmbed |-> 0, nColl |-> 0, nQuery |-> 0, nGen |-> 0, nResp |-> 0,
     upserted |-> {},
     exitBefore |-> "orig", exitAfter |-> "orig"]

\* The files multer stages for request r: originalname, temporary path, content.
StagedFiles(r, texts) ==
    [j \in 1..Len(texts) |->
        [name |-> "f" \o ToString(j), path |-> <<r, j>>, text |-> texts[j]]]

PathsOf(fs) == { fs[j].path : j \in 1..Len(fs) }

CollectionName == IF ver = 2 THEN "my_docs" ELSE "Damian_Ingested"

\* res.status(...).send(...): the handler is over.
Respond(rec, code) ==
    [rec EXCEPT !.pc = "done", !.status = code, !.nResp = @ + 1]

\* res.status(code).send({ error: ... }) with the message of the error.
RespondError(rec, code, msg) == [Respond(rec, code) EXCEPT !.error = msg]

\* err.message of the errors the external services raise.
EmbedError == "embedding request failed"
StoreError == "vector store request failed"
GenError == "generation request failed"

\* Entry of getEmbeddings (version 1: lines 81-85, version 3: 397-399) or of
\* embed (version 2: 247): the request to the embedding service is sent.
\* Version 1 saves console.log and installs the stub.
EnterEmbed(rec, log) ==
    [rec EXCEPT !.nEmbed = @ + 1, !.logAtEntry = log]

LogInCall(log) == IF ver = 1 THEN "stub" ELSE log

\* The request of getEmbeddings failed: the exception leaves the function at
\* the await; nothing after it runs.
LeaveEmbedThrow(rec, log) ==
    [rec EXCEPT !.exitBefore = rec.logAtEntry, !.exitAfter = log]

\* Version 1, line 87: console.log = originalLog.
LogRestored(rec, log) == IF ver = 1 THEN rec.logAtEntry ELSE log

LeaveEmbedReturn(rec, log) ==
    [rec EXCEPT !.exitBefore = rec.logAtEntry, !.exitAfter = LogRestored(rec, log)]

\* First file at or after j that has a sentence to embed; the files before it
\* yield no chunk without any external call and are unlinked on the way.
RECURSIVE NextFile(_, _)
NextFile(fs, j) ==
    IF j > Len(fs) \/ CleanSentences(fs[j].text) # <<>> THEN j
    ELSE NextFile(fs, j + 1)

\* The part index counts from 1.
TaggedPartFromOne(chs, name, ctx) ==
    [m \in 1..Len(chs) |->
        [text |-> chs[m], source |-> name, part |-> m, context |-> ctx]]

\* chunks.forEach / for (i ...) allChunks.push({text, metadata})
Tagged(chs, name, ctx) ==
    [m \in 1..Len(chs) |->
        [text |-> chs[m], source |-> name, part |-> m - 1, context |-> ctx]]

TextsOf(cs) == [m \in 1..Len(cs) |-> cs[m].text]

\* Record ids: `${context}-${Date.now()}-${i}` in version 3,
\* `${context}-${i}` in versions 1 and 2.
RecordId(ctx, t, m) ==
    IF ver = 3 THEN ctx \o "-" \o ToString(t) \o "-" \o ToString(m)
    ELSE ctx \o "-" \o ToString(m)

IdsOf(rec, t) == [m \in 1..Len(rec.allChunks) |-> RecordId(rec.context, t, m - 1)]

\* The records of the write request: position m of ids, documents,
\* embeddings and metadatas.
BatchDropsLast(rec) ==
    { [id |-> rec.ids[m], text |-> rec.allChunks[m].text,
       embedding |-> rec.embeddings[m],
       source |-> rec.allChunks[m].source, part |-> rec.allChunks[m].part,
       context |-> rec.allChunks[m].context] : m \in 1..(Len(rec.allChunks) - 1) }

Batch(rec) ==
    { [id |-> rec.ids[m], text |-> rec.allChunks[m].text,
       embedding |-> rec.embeddings[m],
       source |-> rec.allChunks[m].source, part |-> rec.allChunks[m].part,
       context |-> rec.allChunks[m].context] : m \in 1..Len(rec.allChunks) }

IdSet(recs) == { x.id : x \in recs }

\* collection.upsert: a record with an id of the batch is replaced.
Upsert(st, batch) == { x \in st : x.id \notin IdSet(batch) } \cup batch

\* collection.add: a record whose id exists already is left as it is.
Add(st, batch) == st \cup { x \in batch : x.id \notin IdSet(st) }

----------------------------------------------------------------------------
(* The server: initial state and the ingestion handlers *)

ChunkerOff ==
    /\ cpc = "off"
    /\ envChunk = EnvNaN
    /\ text = <<>>
    /\ threshold = CHUNK_THRESHOLD(EnvNaN)
    /\ cleanSentences = <<>>
    /\ vecs = <<>>
    /\ i = 0
    /\ chunks = <<>>
    /\ currentChunk = <<>>
    /\ currentVec = <<0, 0>>
    /\ runStart = 0

\* The vector store outlives the server: at start it is empty or holds what
\* an earlier run has ingested, here one record under context "B".
PersistedStores ==
    { {},
      { [id |-> RecordId("B", 0, 0), text |-> <<"a", ".">>,
         embedding |-> EmbedText(<<"a", ".">>),
         source |-> "f1", part |-> 0, context |-> "B"] } }

Init ==
    /\ ver \in Versions
    /\ req = [r \in Slots |-> IdleReq]
    /\ store \in PersistedStores
    /\ collections = IF store = {} THEN {} ELSE {CollectionName}
    /\ tmpFiles = {}
    /\ consoleLog = "orig"
    /\ now = 0
    /\ ChunkerOff

\* Requests are taken into the slots in order.
CanArrive(r) ==
    /\ req[r].pc = "idle"
    /\ IF r = 1 THEN TRUE ELSE req[r - 1].pc # "idle"

\* The file loop goes to its end without chunking any file.
ContinueLoopSkipsFiles(rec, j, log) ==
    EnterEmbed([rec EXCEPT !.fileIdx = Len(rec.files) + 1, !.pc = "wChunkEmb"], log)

\* The file loop from file j on: files without a sentence are chunked to
\* nothing and the loop goes on; at the first file with sentences
\* semanticChunking calls getEmbeddings, after the last file the handler does.
ContinueLoop(rec, j, log) ==
    LET j2 == NextFile(rec.files, j) IN
    EnterEmbed([rec EXCEPT !.fileIdx = j2,
                           !.pc = IF j2 <= Len(rec.files) THEN "wSentEmb"
                                  ELSE "wChunkEmb"], log)

\* Paths of the files j..(j2-1), each unlinked at the end of its iteration.
Unlinked(rec, j, j2) == { rec.files[m].path : m \in j..(j2 - 1) }

\* POST /upload (version 3, lines 443-453) and POST /index (version 1, lines
\* 92-104): multer has staged the files; validation, context, and the request
\* for the collection.
IngestStart(r) ==
    /\ ver \in {1, 3}
    /\ CanArrive(r)
    /\ \E hf \in BOOLEAN, texts \in SeqsUpTo(FileTexts, MaxFiles),
          h \in Contexts \cup {""}, rid \in RandomIds :
          /\ ~ hf => texts = <<>>
          /\ LET fs == StagedFiles(r, texts)
                 rec == [IdleReq EXCEPT !.kind = "ingest", !.hasFiles = hf,
                                        !.files = fs, !.header = h]
             IN
             IF ~ hf \/ fs = <<>>
             THEN /\ req' = [req EXCEPT ![r] = RespondError(rec, 400, "No files")]
                  /\ tmpFiles' = tmpFiles
             ELSE /\ req' = [req EXCEPT ![r] =
                        [rec EXCEPT !.context = IF h # "" THEN h ELSE "ctx-" \o rid,
                                    !.nColl = 1, !.pc = "wColl"]]
                  /\ tmpFiles' = tmpFiles \cup PathsOf(fs)
    /\ UNCHANGED <<ver, store, collections, consoleLog, now>>
    /\ UNCHANGED chunkVars

\* Lines 450-458 (101-108): the collection exists now; the file loop starts.
IngestCollOk(r) ==
    /\ ver \in {1, 3}
    /\ req[r].kind = "ingest"
    /\ req[r].pc = "wColl"
    /\ collections' = collections \cup {CollectionName}
    /\ LET j2 == NextFile(req[r].files, 1) IN
          /\ req' = [req EXCEPT ![r] = ContinueLoop(@, 1, consoleLog)]
          /\ tmpFiles' = tmpFiles \ Unlinked(req[r], 1, j2)
    /\ consoleLog' = LogInCall(consoleLog)
    /\ UNCHANGED <<ver, store, now>>
    /\ UNCHANGED chunkVars

\* getOrCreateCollection fails and the handler ends without a response.
CollFailSilent(r) ==
    /\ req[r].pc = "wColl"
    /\ req' = [req EXCEPT ![r] = [@ EXCEPT !.pc = "done", !.status = 500,
                                           !.error = StoreError]]
    /\ UNCHANGED <<ver, store, collections, tmpFiles, consoleLog, now>>
    /\ UNCHANGED chunkVars

\* getOrCreateCollection fails: the catch block answers 500.
CollFail(r) ==
    /\ req[r].pc = "wColl"
    /\ req' = [req EXCEPT ![r] = RespondError(@, 500, StoreError)]
    /\ UNCHANGED <<ver, store, collections, tmpFiles, consoleLog, now>>
    /\ UNCHANGED chunkVars

\* Lines 416-434 and 460-467 (58-76 and 110-117): the sentence embeddings of
\* file fileIdx arrive; the file is chunked, its chunks are tagged and pushed,
\* the file is unlinked and the loop goes on.
SentEmbOk(r) ==
    /\ req[r].pc = "wSentEmb"
    /\ LET rec == req[r]
           file == rec.files[rec.fileIdx]
           sents == CleanSentences(file.text)
           chs == ChunksOf(sents, EmbedAll(sents), CHUNK_THRESHOLD(envChunk))
           left == LeaveEmbedReturn(rec, consoleLog)
           log == LogRestored(rec, consoleLog)
           pushed == [left EXCEPT !.allChunks = @ \o Tagged(chs, file.name, rec.context)]
           j2 == NextFile(rec.files, rec.fileIdx + 1)
       IN
          /\ req' = [req EXCEPT ![r] = ContinueLoop(pushed, rec.fileIdx + 1, log)]
          /\ tmpFiles' = tmpFiles \ ({file.path} \cup Unlinked(rec, rec.fileIdx + 1, j2))
          /\ consoleLog' = LogInCall(log)
    /\ UNCHANGED <<ver, store, collections, now>>
    /\ UNCHANGED chunkVars

\* The embedding request of getEmbeddings (embed) fails: the exception goes up
\* to the catch block of the handler, which answers 500.
EmbedFail(r) ==
    /\ req[r].pc \in {"wSentEmb", "wChunkEmb", "wQueryEmb"}
    /\ req' = [req EXCEPT ![r] =
                 RespondError(LeaveEmbedThrow(@, consoleLog), 500, EmbedError)]
    /\ UNCHANGED <<ver, store, collections, tmpFiles, consoleLog, now>>
    /\ UNCHANGED chunkVars

\* Lines 469-476 (120-128): the chunk embeddings arrive, the ids are built
\* and the single upsert is sent.  Version 2 (lines 276-280): the collection
\* is requested first.
ChunkEmbOk(r) ==
    /\ req[r].pc = "wChunkEmb"
    /\ LET rec == LeaveEmbedReturn(req[r], consoleLog)
           emb == [rec EXCEPT !.embeddings = EmbedAll(TextsOf(rec.allChunks))]
       IN
          req' = [req EXCEPT ![r] =
                    IF ver = 2 THEN [emb EXCEPT !.nColl = @ + 1, !.pc = "wColl"]
                    ELSE [emb EXCEPT !.ids = IdsOf(emb, now), !.pc = "wUpsert"]]
    /\ consoleLog' = LogRestored(req[r], consoleLog)
    /\ UNCHANGED <<ver, store, collections, tmpFiles, now>>
    /\ UNCHANGED chunkVars

\* The response reports the number of files.
WriteOkCountsFiles(r) ==
    /\ req[r].pc = "wUpsert"
    /\ store' = IF ver = 2 THEN Add(store, Batch(req[r]))
                ELSE Upsert(store, Batch(req[r]))
    /\ req' = [req EXCEPT ![r] =
                 Respond([req[r] EXCEPT !.upserted = IdSet(Batch(req[r])),
                                        !.indexed = Len(req[r].files),
                                        !.respContext = IF ver = 1 THEN ""
                                                        ELSE req[r].context], 200)]
    /\ UNCHANGED <<ver, collections, tmpFiles, consoleLog, now>>
    /\ UNCHANGED chunkVars

\* Lines 471-481 (123-133, 282-292): the store has applied the write; the
\* handler answers with the number of chunks and (versions 2 and 3) the
\* context.
WriteOk(r) ==
    /\ req[r].pc = "wUpsert"
    /\ store' = IF ver = 2 THEN Add(store, Batch(req[r]))
                ELSE Upsert(store, Batch(req[r]))
    /\ req' = [req EXCEPT ![r] =
                 Respond([req[r] EXCEPT !.upserted = IdSet(Batch(req[r])),
                                        !.indexed = Len(req[r].allChunks),
                                        !.respContext = IF ver = 1 THEN ""
                                                        ELSE req[r].context], 200)]
    /\ UNCHANGED <<ver, collections, tmpFiles, consoleLog, now>>
    /\ UNCHANGED chunkVars

\* The write is rejected as a whole: the catch block answers 500.
WriteFail(r) ==
    /\ req[r].pc = "wUpsert"
    /\ req' = [req EXCEPT ![r] = RespondError(@, 500, StoreError)]
    /\ UNCHANGED <<ver, store, collections, tmpFiles, consoleLog, now>>
    /\ UNCHANGED chunkVars

\* All chunks of the files of rec, file after file (version 2, lines 261-273).
RECURSIVE WcChunks(_, _, _)
WcChunks(fs, j, ctx) ==
    IF j > Len(fs) THEN <<>>
    ELSE Tagged(semanticChunk(fs[j].text, TargetWords), fs[j].name, ctx)
         \o WcChunks(fs, j + 1, ctx)

\* POST /index of version 2 (lines 254-276): no validation; the whole file
\* loop is synchronous (read, chunk, unlink), then embed is called.  Without
\* a files field the for-of throws and the catch block answers 500.
IndexWcStart(r) ==
    /\ ver = 2
    /\ CanArrive(r)
    /\ \E hf \in BOOLEAN, texts \in SeqsUpTo(FileTexts, MaxFiles),
          h \in Contexts \cup {""}, rid \in RandomIds :
          /\ ~ hf => texts = <<>>
          /\ LET fs == StagedFiles(r, texts)
                 ctx == IF h # "" THEN h ELSE "ctx-" \o rid
                 rec == [IdleReq EXCEPT !.kind = "ingest", !.hasFiles = hf,
                                        !.files = fs, !.header = h,
                                        !.context = ctx]
             IN
             req' = [req EXCEPT ![r] =
                       IF ~ hf THEN RespondError(rec, 500, "req.files is not iterable")
                       ELSE EnterEmbed([rec EXCEPT !.allChunks = WcChunks(fs, 1, ctx),
                                                   !.fileIdx = Len(fs) + 1,
                                                   !.pc = "wChunkEmb"], consoleLog)]
    /\ UNCHANGED <<ver, store, collections, tmpFiles, consoleLog, now>>
    /\ UNCHANGED chunkVars

\* Version 2, lines 280-287: the collection exists now; collection.add is sent.
IndexWcCollOk(r) ==
    /\ ver = 2
    /\ req[r].kind = "ingest"
    /\ req[r].pc = "wColl"
    /\ collections' = collections \cup {CollectionName}
    /\ req' = [req EXCEPT ![r] = [req[r] EXCEPT !.ids = IdsOf(req[r], now), !.pc = "wUpsert"]]
    /\ UNCHANGED <<ver, store, tmpFiles, consoleLog, now>>
    /\ UNCHANGED chunkVars

\* Time passes (only version 3 reads the clock).
Tick ==
    /\ ver = 3
    /\ now < MaxTime
    /\ now' = now + 1
    /\ UNCHANGED <<ver, req, store, collections, tmpFiles, consoleLog>>
    /\ UNCHANGED chunkVars

----------------------------------------------------------------------------
(* The server: the query handlers *)

\* where: c ? { context: c } : undefined  (<<>> stands for undefined)
WhereIgnoresC(c) == <<>>

Where(c) == IF c # "" THEN <<c>> ELSE <<>>

\* The records of the store a query with this where filter can return.
Matching(st, where) ==
    IF where = <<>> THEN st ELSE { x \in st : x.context = where[1] }

Min(a, b) == IF a <= b THEN a ELSE b

\* collection.query: nResults records among the matching ones.
QueryResults(st, where, n) ==
    { S \in SUBSET Matching(st, where) :
        Cardinality(S) = Min(n, Cardinality(Matching(st, where))) }

\* POST /chat (version 3, lines 489-494) and POST /query (versions 1 and 2,
\* lines 141-146 and 298-304): validation, then the query is embedded.
QueryStart(r) ==
    /\ CanArrive(r)
    /\ \E qq \in QueryTexts, kk \in KValues, cc \in Contexts \cup {""} :
          /\ qq = "" => (kk = 5 /\ cc = "")
          /\ LET rec == [IdleReq EXCEPT !.kind = "query", !.q = qq, !.k = kk,
                                        !.c = cc]
             IN
             IF qq = ""
             THEN /\ req' = [req EXCEPT ![r] =
                                RespondError(rec, 400, IF ver = 2 THEN "missing q"
                                                       ELSE "Missing query")]
                  /\ consoleLog' = consoleLog
             ELSE /\ req' = [req EXCEPT ![r] =
                                EnterEmbed([rec EXCEPT !.pc = "wQueryEmb"], consoleLog)]
                  /\ consoleLog' = LogInCall(consoleLog)
    /\ UNCHANGED <<ver, store, collections, tmpFiles, now>>
    /\ UNCHANGED chunkVars

\* Lines 494-498 (146-151, 304-307): the query embedding arrives; the
\* collection is requested.
QueryEmbOk(r) ==
    /\ req[r].pc = "wQueryEmb"
    /\ req' = [req EXCEPT ![r] =
                 [LeaveEmbedReturn(req[r], consoleLog) EXCEPT
                     !.embeddings = EmbedAll(<<<<req[r].q>>>>),
                     !.nColl = @ + 1, !.pc = "wColl"]]
    /\ consoleLog' = LogRestored(req[r], consoleLog)
    /\ UNCHANGED <<ver, store, collections, tmpFiles, now>>
    /\ UNCHANGED chunkVars

\* The collection is created anew: its records are gone.
QueryCollOkResets(r) ==
    /\ req[r].kind = "query"
    /\ req[r].pc = "wColl"
    /\ collections' = collections \cup {CollectionName}
    /\ store' = {}
    /\ req' = [req EXCEPT ![r] = [req[r] EXCEPT !.nQuery = @ + 1, !.pc = "wQuery"]]
    /\ UNCHANGED <<ver, tmpFiles, consoleLog, now>>
    /\ UNCHANGED chunkVars

\* Lines 495-504 (148-157, 307-312): the collection exists now; the store is queried.
QueryCollOk(r) ==
    /\ req[r].kind = "query"
    /\ req[r].pc = "wColl"
    /\ collections' = collections \cup {CollectionName}
    /\ req' = [req EXCEPT ![r] = [req[r] EXCEPT !.nQuery = @ + 1, !.pc = "wQuery"]]
    /\ UNCHANGED <<ver, store, tmpFiles, consoleLog, now>>
    /\ UNCHANGED chunkVars

\* Lines 506-522: the results arrive.  Version 3 answers at once when there
\* is none; otherwise (and always in versions 1 and 2, lines 159-170 and
\* 314-325) the prompt is built and the generation service is called.
QueryOk(r) ==
    /\ req[r].pc = "wQuery"
    /\ \E res \in QueryResults(store, Where(req[r].c), req[r].k) :
          req' = [req EXCEPT ![r] =
                    IF ver = 3 /\ res = {}
                    THEN Respond([req[r] EXCEPT !.answer = "No matching documents found.",
                                                !.retrieved = {}], 200)
                    ELSE [req[r] EXCEPT !.retrieved = res, !.nGen = @ + 1,
                                        !.pc = "wGen"]]
    /\ UNCHANGED <<ver, store, collections, tmpFiles, consoleLog, now>>
    /\ UNCHANGED chunkVars

\* collection.query fails; the handler goes on with no result.
QueryFailContinues(r) ==
    /\ req[r].pc = "wQuery"
    /\ req' = [req EXCEPT ![r] = [@ EXCEPT !.error = StoreError, !.nGen = @ + 1,
                                           !.pc = "wGen"]]
    /\ UNCHANGED <<ver, store, collections, tmpFiles, consoleLog, now>>
    /\ UNCHANGED chunkVars

\* collection.query fails: the catch block answers 500.
QueryFail(r) ==
    /\ req[r].pc = "wQuery"
    /\ req' = [req EXCEPT ![r] = RespondError(@, 500, StoreError)]
    /\ UNCHANGED <<ver, store, collections, tmpFiles, consoleLog, now>>
    /\ UNCHANGED chunkVars

\* Lines 522-524 (170-174, 325-326): the generated text is sent with the
\* retrieved items.
GenOk(r) ==
    /\ req[r].pc = "wGen"
    /\ req' = [req EXCEPT ![r] = Respond([req[r] EXCEPT !.answer = "generated"], 200)]
    /\ UNCHANGED <<ver, store, collections, tmpFiles, consoleLog, now>>
    /\ UNCHANGED chunkVars

\* generateContent fails: the catch block answers 500.
GenFail(r) ==
    /\ req[r].pc = "wGen"
    /\ req' = [req EXCEPT ![r] = RespondError(@, 500, GenError)]
    /\ UNCHANGED <<ver, store, collections, tmpFiles, consoleLog, now>>
    /\ UNCHANGED chunkVars

Next ==
    \/ \E r \in Slots : IngestStart(r)
    \/ \E r \in Slots : IngestCollOk(r)
    \/ \E r \in Slots : CollFail(r)
    \/ \E r \in Slots : SentEmbOk(r)
    \/ \E r \in Slots : EmbedFail(r)
    \/ \E r \in Slots : ChunkEmbOk(r)
    \/ \E r \in Slots : WriteOk(r)
    \/ \E r \in Slots : WriteFail(r)
    \/ \E r \in Slots : IndexWcStart(r)
    \/ \E r \in Slots : IndexWcCollOk(r)
    \/ \E r \in Slots : QueryStart(r)
    \/ \E r \in Slots : QueryEmbOk(r)
    \/ \E r \in Slots : QueryCollOk(r)
    \/ \E r \in Slots : QueryOk(r)
    \/ \E r \in Slots : QueryFail(r)
    \/ \E r \in Slots : GenOk(r)
    \/ \E r \in Slots : GenFail(r)
    \/ Tick

Spec == Init /\ [][Next]_vars

----------------------------------------------------------------------------
(* Properties of the server *)

IsIngest(r) == req[r].kind = "ingest"
IsQuery(r) == req[r].kind = "query"

\* Every chunk of the call of rec is in st under its id (with its text,
\* embedding and metadata when the write is an upsert).
Committed(rec, st) ==
    \A m \in 1..Len(rec.allChunks) :
        \E x \in st :
            /\ x.id = rec.ids[m]
            /\ ver # 2 =>
                 /\ x.text = rec.allChunks[m].text
                 /\ x.embedding = rec.embeddings[m]
                 /\ x.source = rec.allChunks[m].source
                 /\ x.part = rec.allChunks[m].part
                 /\ x.context = rec.context

\* C1: the store changes only in the step in which an ingestion call gets the
\* answer of its single write and responds 200, and then every record of the
\* call is in the store; a call that ends with an error has written nothing.
C1_WriteStep ==
    store' # store =>
        \E r \in Slots :
            /\ IsIngest(r)
            /\ req[r].pc = "wUpsert"
            /\ req'[r].pc = "done"
            /\ req'[r].status = 200
            /\ Committed(req[r], store')
            /\ \A x \in store : x.id \notin { req[r].ids[m] : m \in 1..Len(req[r].ids) }
                                => x \in store'

C1_FailedWroteNothing ==
    \A r \in Slots :
        IsIngest(r) =>
            /\ req[r].status \in {400, 500} => req[r].upserted = {}
            /\ req[r].status = 200 =>
                  /\ Cardinality(req[r].upserted) = Len(req[r].allChunks)
                  /\ req[r].upserted \subseteq IdSet(store)

C2_DisjointIds ==
    \A r1, r2 \in Slots :
        (ver # 2 /\ r1 # r2 /\ IsIngest(r1) /\ IsIngest(r2)
         /\ req[r1].context = req[r2].context)
        => req[r1].upserted \cap req[r2].upserted = {}

\* C3: the items retrieved by a query with context filter c all carry
\* metadata.context = c.
C3_QueryRespectsContext ==
    \A r \in Slots :
        (IsQuery(r) /\ req[r].c # "") =>
            \A x \in req[r].retrieved : x.context = req[r].c

\* A query filtered on "A" retrieved something while the store holds a
\* record of context "B".
C3_Witness ==
    \E r \in Slots :
        /\ IsQuery(r)
        /\ req[r].c = "A"
        /\ req[r].retrieved # {}
        /\ \E x \in store : x.context = "B"
        /\ \E x \in store : x.context = "A"

\* C6: when an ingestion request is over, none of its temporary files is left.
C6_TempFilesDeleted ==
    \A r \in Slots :
        (IsIngest(r) /\ req[r].pc = "done") =>
            PathsOf(req[r].files) \cap tmpFiles = {}

\* C7: when a call of getEmbeddings is left, by return or by exception,
\* console.log is what it was when the call was entered.
C7_ConsoleLogRestored ==
    \A r \in Slots : req[r].exitAfter = req[r].exitBefore

\* C8: the generation service is called only for a non-empty result list, and
\* a query that found nothing answers "No matching documents found." with an
\* empty retrieved list.
C8_NoGenerationWithoutResults ==
    \A r \in Slots :
        IsQuery(r) =>
            /\ req[r].nGen > 0 => req[r].retrieved # {}
            /\ (req[r].status = 200 /\ req[r].retrieved = {})
                   => req[r].answer = "No matching documents found."

\* C10: an ingestion request without files ends with status 400, and makes no
\* embedding request, no collection request and no write.
C10_EmptyFileSetRejected ==
    \A r \in Slots :
        (IsIngest(r) /\ req[r].files = <<>>) =>
            /\ req[r].pc = "done" => req[r].status = 400
            /\ req[r].nEmbed = 0
            /\ req[r].nColl = 0
            /\ req[r].upserted = {}

----------------------------------------------------------------------------
(* Properties of the chunker: segmentation, thresholds, configuration *)

RECURSIVE NonWhitespace(_)
NonWhitespace(s) ==
    IF s = <<>> THEN <<>>
    ELSE IF Head(s) \in Whitespace THEN NonWhitespace(Tail(s))
    ELSE <<Head(s)>> \o NonWhitespace(Tail(s))

\* C11: the cleaned sentences, rejoined in order, hold every non-whitespace
\* character of the text exactly once and in order.
C11_SegmentationKeepsCharacters ==
    cpc # "start" =>
        NonWhitespace(Flatten(cleanSentences)) = NonWhitespace(text)

\* The similarity of a and b as cosineSimilarity computes it in doubles is a
\* number and is at least th.
ComputedSimAtLeast(a, b, th) ==
    /\ Dot(a, a) # 0 /\ Dot(b, b) # 0
    /\ Dot(a, b) >= 0
    /\ LET lhs == Dot(a, b) * Dot(a, b) * th[2] * th[2]
           rhs == th[1] * th[1] * Dot(a, a) * Dot(b, b)
       IN  \/ lhs > rhs
           \/ lhs = rhs /\ (Dot(a, b) = 0 \/ (IsSquare(Dot(a, a)) /\ IsSquare(Dot(b, b))))

\* th is at most the minimum pairwise similarity of the sentence vectors.
AtMostMinPairwise(th) ==
    \A m, n \in 1..Len(vecs) : m < n => ComputedSimAtLeast(vecs[m], vecs[n], th)

\* b is a positive multiple of a.
PositiveMultiple(a, b) == a[1] * b[2] = a[2] * b[1] /\ Dot(a, b) > 0

AllMergedWhenBelowMin ==
    (cpc = "done" /\ cleanSentences # <<>> /\ AtMostMinPairwise(threshold))
        => Len(chunks) = 1

\* C12 as stated: with threshold 1 an iteration whose sentence vector is not
\* identical to the anchor closes the open chunk; with a threshold at most the
\* minimum pairwise similarity everything is merged into one chunk.
C12_BoundaryUnlessIdentical ==
    /\ [][(cpc = "loop" /\ i < Len(cleanSentences) /\ threshold = <<1, 1>>
           /\ At(vecs, i) # currentVec)
          => chunks' = Append(chunks, currentChunk)]_vars
    /\ [](AllMergedWhenBelowMin)

\* C12 as amended: with threshold 1 an iteration closes the open chunk when
\* the computed similarity of anchor and sentence vector is below 1, which is
\* the case for every vector that is not a positive multiple of the anchor.
C12_BoundaryUnlessSimilarityOne ==
    /\ [][(cpc = "loop" /\ i < Len(cleanSentences) /\ threshold = <<1, 1>>
           /\ (~ ComputedSimAtLeast(currentVec, At(vecs, i), <<1, 1>>)
               \/ ~ PositiveMultiple(currentVec, At(vecs, i))))
          => chunks' = Append(chunks, currentChunk)]_vars
    /\ [](AllMergedWhenBelowMin)

\* Threshold 1: <<2, 0>> was merged with the anchor <<1, 0>> and a boundary
\* was placed before <<0, 1>>.
C12_Witness ==
    /\ cpc = "done"
    /\ threshold = <<1, 1>>
    /\ vecs = << <<1, 0>>, <<2, 0>>, <<0, 1>> >>
    /\ Len(chunks) = 2
    /\ chunks[2] = cleanSentences[3]

\* C17: a threshold set in the configuration is the default threshold of the
\* chunker.
C17_ConfiguredThresholdUsed ==
    envChunk # EnvNaN => CHUNK_THRESHOLD(envChunk) = envChunk

----------------------------------------------------------------------------
(* Properties of the server: failures, requests to the services, responses *)

UpstreamErrors == {EmbedError, StoreError, GenError}

\* C13: a query request calls each service at most once; a failed embedding
\* call, store call or generation call ends it with status 500 and the
\* message of the failure, with no call of a later step and no answer; a
\* request without query text ends with status 400 and no call at all.
C13_QueryFailureAborts ==
    \A r \in Slots :
        IsQuery(r) =>
            /\ req[r].nEmbed <= 1 /\ req[r].nColl <= 1
            /\ req[r].nQuery <= 1 /\ req[r].nGen <= 1
            /\ req[r].q = "" =>
                  /\ req[r].pc = "done" /\ req[r].status = 400
                  /\ req[r].error \notin UpstreamErrors \cup {""}
                  /\ req[r].nEmbed + req[r].nColl + req[r].nQuery + req[r].nGen = 0
            /\ req[r].error \in UpstreamErrors =>
                  /\ req[r].pc = "done" /\ req[r].status = 500
                  /\ req[r].answer = ""
            /\ req[r].status = 500 => req[r].error \in UpstreamErrors
            /\ req[r].error = EmbedError =>
                  req[r].nColl + req[r].nQuery + req[r].nGen = 0
            /\ req[r].error = StoreError => req[r].nGen = 0
            /\ req[r].error = GenError => req[r].nGen = 1

\* One query failed at the store query, another at the generation call.
C13_Witness ==
    \E r1, r2 \in Slots :
        /\ IsQuery(r1) /\ req[r1].error = StoreError /\ req[r1].nQuery = 1
        /\ IsQuery(r2) /\ req[r2].error = GenError /\ req[r2].retrieved # {}

\* The file texts that have at least one sentence.
HasSentences == [t \in FileTexts |-> CleanSentences(t) # <<>>]

\* Number of the files that have at least one sentence.
RECURSIVE FilesWithSentences(_)
FilesWithSentences(fs) ==
    IF fs = <<>> THEN 0
    ELSE (IF HasSentences[Head(fs).text] THEN 1 ELSE 0)
         + FilesWithSentences(Tail(fs))

\* C14 as stated: an ingestion call that succeeds has sent exactly one request
\* to the embedding service, and so has a query that got past validation.
C14_OneEmbeddingRequest ==
    \A r \in Slots :
        /\ (IsIngest(r) /\ req[r].status = 200) => req[r].nEmbed = 1
        /\ (IsQuery(r) /\ req[r].q # "") => req[r].nEmbed = 1

\* C14 as amended: an ingestion call of the similarity chunker sends one
\* request per file that has a sentence and one for the chunks of all files;
\* that of the word-count chunker sends one; a query sends one, and none when
\* it is rejected.
C14_EmbeddingRequestsPerCall ==
    \A r \in Slots :
        /\ IsIngest(r) =>
              LET all == IF ver = 2 THEN 1
                         ELSE FilesWithSentences(req[r].files) + 1
              IN  /\ req[r].nEmbed <= all
                  /\ req[r].status = 200 => req[r].nEmbed = all
        /\ IsQuery(r) => req[r].nEmbed = IF req[r].q # "" THEN 1 ELSE 0

\* An ingestion of two files with sentences succeeded after three embedding
\* requests, one of a blank file and a file with sentences after two.
C14_Witness ==
    \E r1, r2 \in Slots :
        /\ IsIngest(r1) /\ req[r1].status = 200 /\ req[r1].nEmbed = 3
        /\ IsIngest(r2) /\ req[r2].status = 200 /\ req[r2].nEmbed = 2
        /\ Len(req[r2].files) = 2

\* The records of st written under the ids of rec.
WrittenBy(rec, st) == { x \in st : x.id \in { rec.ids[m] : m \in 1..Len(rec.ids) } }

\* C15: in the step in which an ingestion call responds 200 the reported
\* count is the number of records of its upsert, and the reported context is
\* the context of every one of them: the header value when there is one,
\* otherwise the identifier generated for the call.
C15_ResponseStep ==
    \A r \in Slots :
        (IsIngest(r) /\ req[r].pc # "done" /\ req'[r].pc = "done"
         /\ req'[r].status = 200)
        => /\ ver # 2 => req'[r].indexed = Cardinality(WrittenBy(req[r], store'))
           /\ ver # 1 =>
                 /\ \A x \in WrittenBy(req[r], store') :
                        x.context = req'[r].respContext
                 /\ IF req[r].header # "" THEN req'[r].respContext = req[r].header
                    ELSE \E rid \in RandomIds : req'[r].respContext = "ctx-" \o rid

C15_ResponseReportsWhatWasWritten == [][C15_ResponseStep]_vars

\* /upload calls with and without a context header each wrote two or more
\* records and responded.
C15_Witness ==
    /\ ver = 3
    /\ \E r1, r2 \in Slots :
        /\ IsIngest(r1) /\ req[r1].status = 200 /\ req[r1].header = "A"
        /\ req[r1].indexed >= 2 /\ req[r1].respContext = "A"
        /\ IsIngest(r2) /\ req[r2].status = 200 /\ req[r2].header = ""
        /\ req[r2].indexed >= 2 /\ req[r2].respContext = "ctx-1f"

\* Number of the chunks before position m that come from the same file.
EarlierOfSource(cs, m) ==
    Cardinality({ n \in 1..(m - 1) : cs[n].source = cs[m].source })

RECURSIVE TextOfSource(_, _)
TextOfSource(cs, name) ==
    IF cs = <<>> THEN <<>>
    ELSE (IF Head(cs).source = name THEN Head(cs).text ELSE <<>>)
         \o TextOfSource(Tail(cs), name)

\* C16: when the upsert is sent, ids, documents, embeddings and metadatas are
\* equally long, embedding m is the vector of chunk text m, source m is a file
\* of the request whose text the chunks of that source make up, and part m is
\* the number of earlier chunks of the same file.
C16_UpsertAligned ==
    \A r \in Slots :
        (IsIngest(r) /\ ver # 2 /\ req[r].pc = "wUpsert") =>
            LET cs == req[r].allChunks IN
            /\ Len(req[r].ids) = Len(cs)
            /\ Len(req[r].embeddings) = Len(cs)
            /\ Cardinality(Batch(req[r])) = Len(cs)
            /\ \A m \in 1..Len(cs) :
                  /\ req[r].embeddings[m] = EmbedText(cs[m].text)
                  /\ cs[m].part = EarlierOfSource(cs, m)
                  /\ \E j \in 1..Len(req[r].files) :
                        /\ req[r].files[j].name = cs[m].source
                        /\ NonWhitespace(TextOfSource(cs, cs[m].source))
                             = NonWhitespace(req[r].files[j].text)
                  /\ \E x \in Batch(req[r]) :
                        /\ x.id = req[r].ids[m] /\ x.text = cs[m].text
                        /\ x.embedding = req[r].embeddings[m]
                        /\ x.source = cs[m].source /\ x.part = cs[m].part

\* The upsert of two files with two chunks each: parts 0, 1, 0, 1.
C16_Witness ==
    \E r \in Slots :
        /\ IsIngest(r) /\ ver # 2 /\ req[r].pc = "wUpsert"
        /\ Len(req[r].allChunks) = 4
        /\ [m \in 1..4 |-> req[r].allChunks[m].part] = <<0, 1, 0, 1>>
        /\ req[r].allChunks[1].source # req[r].allChunks[3].source

\* C18: when no call of getEmbeddings is under way and none has failed,
\* console.log is the original function.
C18_LogRestoredAfterOverlap ==
    (\A r \in Slots : /\ req[r].pc \notin {"wSentEmb", "wChunkEmb", "wQueryEmb"}
                      /\ req[r].error # EmbedError)
        => consoleLog = "orig"

\* Upper bound of the number of steps a request still takes.
Rank(rec) ==
    CASE rec.pc = "done" -> 0
      [] rec.pc \in {"wGen", "wUpsert"} -> 1
      [] rec.pc = "wQuery" -> 2
      [] rec.pc = "wColl" /\ rec.kind = "query" -> 3
      [] rec.pc = "wQueryEmb" -> 4
      [] rec.pc = "wColl" /\ rec.kind = "ingest" /\ ver = 2 -> 2
      [] rec.pc = "wChunkEmb" -> 3
      [] rec.pc = "wSentEmb" -> 4 + Len(rec.files) - rec.fileIdx
      [] OTHER -> 5 + Len(rec.files)

\* The external call request r waits for fails.
Fails(r) ==
    CollFail(r) \/ EmbedFail(r) \/ WriteFail(r) \/ QueryFail(r) \/ GenFail(r)

C19_Inv ==
    \A r \in Slots :
        /\ req[r].nResp <= 1
        /\ req[r].pc = "done" <=> req[r].nResp = 1
        /\ req[r].pc = "idle" <=> req[r].kind = "none"
        /\ req[r].pc \notin {"idle", "done"} => ENABLED Fails(r)

C19_Step ==
    /\ \A r \in Slots :
          /\ (req[r].pc # "idle" /\ req'[r] # req[r])
                => Rank(req'[r]) < Rank(req[r])
          /\ req[r].pc = "done" => req'[r] = req[r]
    /\ (store' # store \/ collections' # collections) =>
          \E r \in Slots : req[r].pc \notin {"idle", "done"} /\ req'[r] # req[r]

\* C19: a request has sent one response exactly when its handler is over and
\* never more than one; while it is not over it waits for a call that can
\* fail, and every step takes it nearer to its response; after the
\* response nothing of the request changes, and no call and no write is made.
C19_ExactlyOneResponse == [](C19_Inv) /\ [][C19_Step]_vars

\* One request was rejected at validation, another answered after its write.
C19_Witness ==
    \E r1, r2 \in Slots :
        /\ req[r1].status = 400 /\ req[r1].nResp = 1
        /\ IsIngest(r2) /\ req[r2].status = 200 /\ req[r2].nResp = 1
        /\ req[r2].upserted # {}

\* C20: a step that starts or continues a query request leaves the records
\* of the store as they are.
C20_QueryStep ==
    \A r \in Slots :
        ((IsQuery(r) \/ req'[r].kind = "query") /\ req'[r] # req[r])
            => store' = store

C20_QueryLeavesStore == [][C20_QueryStep]_vars

\* Over a store with records one query was answered from retrieved records
\* and another failed at the store query.
C20_Witness ==
    \E r1, r2 \in Slots :
        /\ store # {}
        /\ IsQuery(r1) /\ req[r1].status = 200 /\ req[r1].answer = "generated"
        /\ req[r1].retrieved # {}
        /\ IsQuery(r2) /\ req[r2].status = 500 /\ req[r2].nQuery = 1
        /\ req[r2].nGen = 0

====
